---------------------------- MODULE Spec2Model ----------------------------
(***************************************************************************)
(* A model of the LTC2983 driver (src/src/lib.rs): the channel register    *)
(* map, the sensor configuration builders and their 32-bit configuration   *)
(* words, the SPI transaction framing, the conversion start commands, the  *)
(* result decoding and classification, and the two averaging loops.        *)
(*                                                                         *)
(* Temperatures are kept as the raw signed Q21.10 integer (value * 1024);  *)
(* an average is kept as the pair <<sum of raw values, divisor>>.          *)
(***************************************************************************)
EXTENDS Integers, Sequences, FiniteSets, TLC

VARIABLES
    api,        \* the driver method being executed ("none" before any call)
    args,       \* its arguments: [channel, channels, rounds]
    pc,         \* position inside the method; "idle", "done" or "panic" outside
    r,          \* get_*_avg: the completed-round counter r
    values,     \* get_*_avg: the accumulator Vec values
    i,          \* get_temperature_avg: the poll loop index i
    idx,        \* read_multi_temperature: index of the next channel to read
    bus,        \* the SPI transactions of the current call, in order
    recv,       \* read_temperature called from outside the averaging loops:
                \* the four result bytes it received last
    readings,   \* get_temperature_avg: what each read_temperature returned so far
    results,    \* the Vec collected by read_multi_temperature in this round
    result,     \* what the call returned: [kind, value]
    devStatus,  \* the device's status byte (bit 7 start, bit 6 done)
    params,     \* the sensor parameter record under construction
    probe,      \* the ThermalProbeType last handed to setup_channel
    query,      \* register map lookups: the channels asked for
    lookup,     \* register map lookups: what the four accessors returned
    device      \* the device's configuration registers, where they are modelled

vars == <<api, args, pc, r, values, i, idx, bus, recv, readings,
          results, result, devStatus, params, probe, query, lookup, device>>

driverVars == <<api, args, pc, r, values, i, idx, bus, recv,
                readings, results, result, devStatus>>

---------------------------------------------------------------------------
(* Bounds of the model.                                                    *)

\* the largest `rounds` argument given to the averaging calls
MaxRounds == 2
\* the most conversions one get_temperature_avg call may start
MaxAttempts == 3
\* get_multi_temperature_avg, which bounds neither its polls nor its rounds,
\* has its first MaxBus bus transactions recorded
MaxBus == 12
\* the longest channel list given to start_multi_conversion
MaxChannels == 3

---------------------------------------------------------------------------
(* Integer helpers: the model keeps u8/u16/u32/u64 values as naturals.     *)
(* TLC integers are 32-bit signed, so a full 32-bit register               *)
(* word is kept as its four bytes and never as one number; every number    *)
(* below stays under 2^31.                                                  *)

\* 2^n for n in 0..30
Pow2Table ==
    <<1, 2, 4, 8, 16, 32, 64, 128, 256, 512, 1024, 2048, 4096, 8192, 16384,
      32768, 65536, 131072, 262144, 524288, 1048576, 2097152, 4194304, 8388608,
      16777216, 33554432, 67108864, 134217728, 268435456, 536870912,
      1073741824>>

Pow2(n) == Pow2Table[n + 1]

\* a & b
RECURSIVE BitAnd(_, _)
BitAnd(a, b) ==
    IF a = 0 \/ b = 0 THEN 0
    ELSE (a % 2) * (b % 2) + 2 * BitAnd(a \div 2, b \div 2)

\* a | b
RECURSIVE BitOr(_, _)
BitOr(a, b) ==
    IF a = 0 THEN b
    ELSE IF b = 0 THEN a
    ELSE (IF a % 2 = 1 \/ b % 2 = 1 THEN 1 ELSE 0) + 2 * BitOr(a \div 2, b \div 2)

\* a << n, in a type wide enough not to lose bits
Shl(a, n) == a * Pow2(n)

Byte == 0..255

RECURSIVE SeqSum(_)
SeqSum(s) == IF s = <<>> THEN 0 ELSE Head(s) + SeqSum(Tail(s))

\* all sequences over S of length at most n
SeqsUpTo(S, n) == UNION {[1..k -> S] : k \in 0..n}

---------------------------------------------------------------------------
(* enum LTC2983Channel and its accessors.                                  *)

\* the variants in declaration order: CHn is the n-th
ChannelOrder ==
    <<"CH1", "CH2", "CH3", "CH4", "CH5", "CH6", "CH7", "CH8", "CH9", "CH10",
      "CH11", "CH12", "CH13", "CH14", "CH15", "CH16", "CH17", "CH18", "CH19",
      "CH20">>

LTC2983Channel == {ChannelOrder[n] : n \in DOMAIN ChannelOrder}

\* n for CHn
Ord(ch) == CHOOSE n \in DOMAIN ChannelOrder : ChannelOrder[n] = ch

StartAddressTable ==
    [CH1 |-> 512, CH2 |-> 516, CH3 |-> 520, CH4 |-> 524, CH5 |-> 528,
     CH6 |-> 532, CH7 |-> 536, CH8 |-> 540, CH9 |-> 544, CH10 |-> 548,
     CH11 |-> 552, CH12 |-> 556, CH13 |-> 560, CH14 |-> 564, CH15 |-> 568,
     CH16 |-> 572, CH17 |-> 576, CH18 |-> 580, CH19 |-> 584, CH20 |-> 588]

ResultAddressTable ==
    [CH1 |-> 16, CH2 |-> 20, CH3 |-> 24, CH4 |-> 28, CH5 |-> 32,
     CH6 |-> 36, CH7 |-> 40, CH8 |-> 44, CH9 |-> 48, CH10 |-> 52,
     CH11 |-> 56, CH12 |-> 60, CH13 |-> 64, CH14 |-> 68, CH15 |-> 72,
     CH16 |-> 76, CH17 |-> 80, CH18 |-> 84, CH19 |-> 88, CH20 |-> 92]

IdentifierTable ==
    [CH1 |-> 1, CH2 |-> 2, CH3 |-> 3, CH4 |-> 4, CH5 |-> 5,
     CH6 |-> 6, CH7 |-> 7, CH8 |-> 8, CH9 |-> 9, CH10 |-> 10,
     CH11 |-> 11, CH12 |-> 12, CH13 |-> 13, CH14 |-> 14, CH15 |-> 15,
     CH16 |-> 16, CH17 |-> 17, CH18 |-> 18, CH19 |-> 19, CH20 |-> 20]

start_address(ch) == StartAddressTable[ch]

\* result_address with the CH7 arm carrying CH6's address
result_address_dup(ch) == IF ch = "CH7" THEN 36 ELSE ResultAddressTable[ch]

result_address(ch) == ResultAddressTable[ch]

identifier(ch) == IdentifierTable[ch]

\* 0x1 << (self.identifier() - 1): at most 1 << 19, no bit leaves the u32
mask(ch) == Shl(1, identifier(ch) - 1)

LTC2983_WRITE == 2
LTC2983_READ == 3
STATUS_REGISTER == 0
MULTI_CHANNEL_MASK_REGISTER == 244

---------------------------------------------------------------------------
(* Register map lookups: the four accessors applied to a pair of channels. *)

NoLookup == [done |-> FALSE]

Regs(ch) ==
    [start_address |-> start_address(ch), result_address |-> result_address(ch),
     identifier |-> identifier(ch), mask |-> mask(ch)]

ChannelLookup ==
    /\ query # <<>>
    /\ lookup = NoLookup
    /\ lookup' = [done |-> TRUE, a |-> Regs(query[1]), b |-> Regs(query[2])]
    /\ UNCHANGED <<driverVars, params, probe, query, device>>

---------------------------------------------------------------------------
(* bytebuffer::ByteBuffer as the driver uses it: a buffer is the sequence  *)
(* of bits written so far, most significant bit first, big-endian.         *)

NewBuffer == <<>>

\* the low n bits of value (value < 2^31), most significant first
Bits(value, n) ==
    [k \in 1..n |-> IF n - k > 30 THEN 0 ELSE (value \div Pow2(n - k)) % 2]

\* byte writes start at the next byte boundary
flush_bits(buf) ==
    IF Len(buf) % 8 = 0 THEN buf
    ELSE buf \o [k \in 1..(8 - (Len(buf) % 8)) |-> 0]

write_u8(buf, x) == flush_bits(buf) \o Bits(x, 8)

write_u16(buf, x) == flush_bits(buf) \o Bits(x, 16)

write_u32(buf, x) == flush_bits(buf) \o Bits(x, 32)

write_bits(buf, value, n) == buf \o Bits(value, n)

as_bytes(buf) ==
    LET b == flush_bits(buf)
    IN  [k \in 1..(Len(b) \div 8) |->
            b[8*k - 7] * 128 + b[8*k - 6] * 64 + b[8*k - 5] * 32 + b[8*k - 4] * 16
          + b[8*k - 3] * 8 + b[8*k - 2] * 4 + b[8*k - 1] * 2 + b[8*k]]

\* bits hi..lo (bit 31 first sent, lo >= 1 when hi = 31) of the 32-bit word
\* held by four bytes
Field(word, hi, lo) ==
    LET low31 == (word[1] % 128) * 16777216 + word[2] * 65536 + word[3] * 256 + word[4]
        top == word[1] \div 128
    IN  IF hi < 31
        THEN (low31 \div Pow2(lo)) % Pow2(hi - lo + 1)
        ELSE (low31 \div Pow2(lo)) + top * Pow2(31 - lo)

---------------------------------------------------------------------------
(* Result decoding and classification.                                     *)

\* the widening without the sign test: always a leading 0x00
reformat_no_sign(bytes_f24) == <<0, bytes_f24[1], bytes_f24[2], bytes_f24[3]>>

reformat_fixedf24_to_fixed_f32(bytes_f24) ==
    IF BitAnd(bytes_f24[1], 128) = 128
    THEN <<255, bytes_f24[1], bytes_f24[2], bytes_f24[3]>>
    ELSE <<0, bytes_f24[1], bytes_f24[2], bytes_f24[3]>>

\* FixedI32::<U10>::from_be_bytes: the raw i32 of the fixed-point number
from_be_bytes(b) ==
    (IF b[1] >= 128 THEN b[1] - 256 ELSE b[1]) * Pow2(24)
        + b[2] * Pow2(16) + b[3] * Pow2(8) + b[4]

Valid(value) == [kind |-> "Valid", value |-> value]
Suspect(value, code) == [kind |-> "Suspect", value |-> value, code |-> code]
Invalid(code) == [kind |-> "Invalid", code |-> code]

\* the classification testing only bit 1 of the error byte
FromBytes_bit1_only(bytes) ==
    LET value == from_be_bytes(reformat_fixedf24_to_fixed_f32(SubSeq(bytes, 2, 4)))
        error_code == bytes[1]
    IN  IF error_code = 1 THEN Valid(value)
        ELSE IF BitAnd(error_code, 2) # 0 THEN Invalid(error_code)
        ELSE Suspect(value, error_code)

\* impl From<[u8; 4]> for LTC2983Result
FromBytes(bytes) ==
    LET value == from_be_bytes(reformat_fixedf24_to_fixed_f32(SubSeq(bytes, 2, 4)))
        error_code == bytes[1]
    IN  IF error_code = 1 THEN Valid(value)
        ELSE IF BitAnd(error_code, 14) # 0 THEN Invalid(error_code)
        ELSE Suspect(value, error_code)

\* impl From<u8> for LTC2983Status
StatusFrom(data) ==
    [start |-> BitAnd(data, 128) = 128,
     done |-> BitAnd(data, 64) = 64,
     channel_selection |-> BitAnd(data, 31)]

---------------------------------------------------------------------------
(* The SPI bus and the device behind it.  A transaction is recorded with   *)
(* the bytes the driver sent and whether the transport reported success.   *)

Tx(op, bytes, ok) == [op |-> op, tx |-> bytes, ok |-> ok]

\* status(): [LTC2983_READ, STATUS_REGISTER, one dummy byte]
StatusReadBytes ==
    as_bytes(write_u8(write_u16(write_u8(NewBuffer, LTC2983_READ), STATUS_REGISTER), 0))

\* the four bytes of a conversion start with the given 5-bit channel field
StartCommandBytes(field) ==
    as_bytes(write_bits(write_bits(
        write_u16(write_u8(NewBuffer, LTC2983_WRITE), STATUS_REGISTER), 4, 3), field, 5))

\* the mask accumulating with + instead of |
ChannelMask_sum(channels) ==
    SeqSum([k \in DOMAIN channels |-> mask(channels[k])])

\* for chan in channels { mask |= chan.mask() }
RECURSIVE ChannelMask(_)
ChannelMask(channels) ==
    IF channels = <<>> THEN 0
    ELSE BitOr(ChannelMask(SubSeq(channels, 1, Len(channels) - 1)),
               mask(channels[Len(channels)]))

MaskWriteBytes(channels) ==
    as_bytes(write_u32(
        write_u16(write_u8(NewBuffer, LTC2983_WRITE), MULTI_CHANNEL_MASK_REGISTER),
        ChannelMask(channels)))

\* read_temperature: [LTC2983_READ, result address, four dummy bytes]
ResultReadBytes(ch) ==
    as_bytes(write_u32(write_u16(write_u8(NewBuffer, LTC2983_READ), result_address(ch)), 0))

\* the record of the call's transactions with t added to it
Log(t) ==
    IF api = "get_multi_temperature_avg" /\ Len(bus) >= MaxBus
    THEN bus
    ELSE Append(bus, t)

\* the device's status byte while converting, and once the conversion is done
StatusConverting == 128
StatusDone == 64

\* the number of conversions the current call has started
Starts ==
    Cardinality({k \in DOMAIN bus :
        bus[k].op = "write" /\ bus[k].ok /\ Len(bus[k].tx) = 4 /\ bus[k].tx[2] = 0
        /\ bus[k].tx[3] = STATUS_REGISTER})

---------------------------------------------------------------------------
(* Calls and returns.                                                      *)

NoArgs == [channel |-> "-", channels |-> <<>>, rounds |-> 0]
NoResult == [kind |-> "none", value |-> <<>>]
NoParams == [family |-> "none"]
NoProbe == [type |-> "none"]

Entry(method) ==
    CASE method = "start_conversion" -> "sc_write"
      [] method = "start_multi_conversion" -> "smc_mask"
      [] method = "read_temperature" -> "rt_transfer"
      [] method = "read_multi_temperature" -> "rmt_iter"
      [] method = "get_temperature_avg" -> "avg_while"
      [] method = "get_multi_temperature_avg" -> "mavg_while"

\* the caller invokes a driver method; its locals start as the code declares them
Call(method, a) ==
    /\ pc = "idle"
    /\ api' = method
    /\ args' = a
    /\ pc' = Entry(method)
    /\ r' = 0
    /\ values' = <<>>
    /\ i' = 0
    /\ idx' = 1
    /\ bus' = <<>>
    /\ recv' = <<>>
    /\ readings' = <<>>
    /\ results' = <<>>
    /\ result' = NoResult
    /\ UNCHANGED <<devStatus, params, probe, query, lookup, device>>

\* the method returns `kind` carrying `value`
Return(kind, value) ==
    /\ result' = [kind |-> kind, value |-> value]
    /\ pc' = "done"

\* the caller has taken the result: the record of the call is dropped
ReturnToCaller ==
    /\ pc = "done"
    /\ api' = "none"
    /\ args' = NoArgs
    /\ pc' = "idle"
    /\ r' = 0
    /\ values' = <<>>
    /\ i' = 0
    /\ idx' = 1
    /\ bus' = <<>>
    /\ recv' = <<>>
    /\ readings' = <<>>
    /\ results' = <<>>
    /\ result' = NoResult
    /\ probe' = NoProbe
    /\ UNCHANGED <<devStatus, params, query, lookup, device>>

\* the device finishes the running conversion
DeviceComplete ==
    /\ StatusFrom(devStatus).start
    /\ devStatus' = StatusDone
    /\ UNCHANGED <<api, args, pc, r, values, i, idx, bus, recv,
                   readings, results, result, params, probe, query, lookup, device>>

---------------------------------------------------------------------------
(* start_conversion and start_multi_conversion.                            *)

\* start_conversion sending channel field 0
StartConversionWrite_zero ==
    /\ pc = "sc_write"
    /\ \E ok \in BOOLEAN :
        /\ bus' = Append(bus, Tx("write", StartCommandBytes(0), ok))
        /\ IF ~ok
           THEN Return("SpiError", <<>>) /\ UNCHANGED <<devStatus, i>>
           ELSE /\ devStatus' = StatusConverting
                /\ IF api = "start_conversion"
                   THEN Return("Ok", <<>>) /\ UNCHANGED i
                   ELSE pc' = "avg_print" /\ i' = 1 /\ UNCHANGED result
    /\ UNCHANGED <<api, args, r, values, idx, recv, readings, results,
                   params, probe, query, lookup, device>>

\* start_conversion(channel); in get_temperature_avg it is followed by the
\* first iteration of `for i in 1..(3+rounds)`
StartConversionWrite ==
    /\ pc = "sc_write"
    /\ \E ok \in BOOLEAN :
        /\ bus' = Append(bus, Tx("write", StartCommandBytes(identifier(args.channel)), ok))
        /\ IF ~ok
           THEN Return("SpiError", <<>>) /\ UNCHANGED <<devStatus, i>>
           ELSE /\ devStatus' = StatusConverting
                /\ IF api = "start_conversion"
                   THEN Return("Ok", <<>>) /\ UNCHANGED i
                   ELSE pc' = "avg_print" /\ i' = 1 /\ UNCHANGED result
    /\ UNCHANGED <<api, args, r, values, idx, recv, readings, results,
                   params, probe, query, lookup, device>>

\* start_multi_conversion: the write of the channel mask
StartMultiMaskWrite ==
    /\ pc = "smc_mask"
    /\ \E ok \in BOOLEAN :
        /\ bus' = Log(Tx("write", MaskWriteBytes(args.channels), ok))
        /\ IF ~ok
           THEN Return("SpiError", <<>>)
           ELSE pc' = "smc_start" /\ UNCHANGED result
    /\ UNCHANGED <<api, args, r, values, i, idx, recv, readings, results,
                   devStatus, params, probe, query, lookup, device>>

\* start_multi_conversion: the start command with channel field 0
StartMultiCommandWrite ==
    /\ pc = "smc_start"
    /\ \E ok \in BOOLEAN :
        /\ bus' = Log(Tx("write", StartCommandBytes(0), ok))
        /\ IF ~ok
           THEN Return("SpiError", <<>>) /\ UNCHANGED <<devStatus, i>>
           ELSE /\ devStatus' = StatusConverting
                /\ IF api = "start_multi_conversion"
                   THEN Return("Ok", <<>>) /\ UNCHANGED i
                   ELSE pc' = "mavg_poll" /\ UNCHANGED <<i, result>>
    /\ UNCHANGED <<api, args, r, values, idx, recv, readings, results,
                   params, probe, query, lookup, device>>

---------------------------------------------------------------------------
(* read_temperature, alone and inside the averaging loops.                 *)

Failed == [kind |-> "Err"]

\* get_temperature_avg pushing a Suspect value like a Valid one
AfterRead_accept_suspect(res) ==
    CASE api = "read_temperature" ->
            /\ IF res = Failed THEN Return("SpiError", <<>>) ELSE Return("Ok", res)
            /\ UNCHANGED <<r, values, idx, readings, results>>
      [] api = "get_temperature_avg" ->
            /\ readings' = Append(readings, res)
            /\ IF res.kind \in {"Valid", "Suspect"}
               THEN values' = Append(values, res.value) /\ r' = r + 1
               ELSE UNCHANGED <<values, r>>
            /\ pc' = "avg_while"
            /\ UNCHANGED <<idx, results, result>>
      [] api = "get_multi_temperature_avg" ->
            /\ results' = Append(results, res)
            /\ idx' = idx + 1
            /\ pc' = IF idx + 1 > Len(args.channels) THEN "mavg_round" ELSE "rt_transfer"
            /\ UNCHANGED <<r, values, readings, result>>
      [] api = "read_multi_temperature" ->
            /\ results' = Append(results, res)
            /\ idx' = idx + 1
            /\ pc' = "rmt_iter"
            /\ UNCHANGED <<r, values, readings, result>>

\* what the caller of read_temperature does with its outcome `res`
AfterRead(res) ==
    CASE api = "read_temperature" ->
            /\ IF res = Failed THEN Return("SpiError", <<>>) ELSE Return("Ok", res)
            /\ UNCHANGED <<r, values, idx, readings, results>>
      [] api = "get_temperature_avg" ->
            \* Err, Invalid and Suspect set was_error; Valid is pushed and counted
            /\ readings' = Append(readings, res)
            /\ IF res.kind = "Valid"
               THEN values' = Append(values, res.value) /\ r' = r + 1
               ELSE UNCHANGED <<values, r>>
            /\ pc' = "avg_while"
            /\ UNCHANGED <<idx, results, result>>
      [] api = "get_multi_temperature_avg" ->
            \* read_multi_temperature collects every channel's outcome
            /\ results' = Append(results, res)
            /\ idx' = idx + 1
            /\ pc' = IF idx + 1 > Len(args.channels) THEN "mavg_round" ELSE "rt_transfer"
            /\ UNCHANGED <<r, values, readings, result>>
      [] api = "read_multi_temperature" ->
            /\ results' = Append(results, res)
            /\ idx' = idx + 1
            /\ pc' = "rmt_iter"
            /\ UNCHANGED <<r, values, readings, result>>

\* the map of read_multi_temperature reading the first channel every time
ReadChannel_first ==
    IF api \in {"get_multi_temperature_avg", "read_multi_temperature"}
    THEN args.channels[1]
    ELSE args.channel

\* the channel read_temperature is reading
ReadChannel ==
    IF api \in {"get_multi_temperature_avg", "read_multi_temperature"}
    THEN args.channels[idx]
    ELSE args.channel

\* read_temperature: one 7-byte transfer, the last four bytes classified
ReadTransfer(RX) ==
    /\ pc = "rt_transfer"
    /\ \/ /\ bus' = Log(Tx("transfer", ResultReadBytes(ReadChannel), FALSE))
          /\ UNCHANGED recv
          /\ AfterRead(Failed)
       \/ \E rx \in RX :
          /\ bus' = Log(Tx("transfer", ResultReadBytes(ReadChannel), TRUE))
          /\ recv' = IF api \in {"read_temperature", "read_multi_temperature"}
                     THEN rx ELSE <<>>
          /\ AfterRead(FromBytes(rx))
    /\ UNCHANGED <<api, args, i, devStatus, params, probe, query, lookup, device>>

\* read_multi_temperature: channels.iter().map(read_temperature).collect()
ReadMultiIter ==
    /\ pc = "rmt_iter"
    /\ IF idx > Len(args.channels)
       THEN Return("Ok", results)
       ELSE pc' = "rt_transfer" /\ UNCHANGED result
    /\ UNCHANGED <<api, args, r, values, i, idx, bus, recv, readings, results,
                   devStatus, params, probe, query, lookup, device>>

---------------------------------------------------------------------------
(* get_temperature_avg.                                                    *)

\* while r < rounds
AvgWhile ==
    /\ pc = "avg_while"
    /\ IF r < args.rounds
       THEN Starts < MaxAttempts /\ pc' = "sc_write"
       ELSE pc' = "avg_reduce"
    /\ UNCHANGED <<api, args, r, values, i, idx, bus, recv, readings,
                   results, result, devStatus, params, probe, query, lookup, device>>

\* println!("{:?}", self.status().unwrap())
AvgPollPrint ==
    /\ pc = "avg_print"
    /\ \E ok \in BOOLEAN :
        /\ bus' = Append(bus, Tx("transfer", StatusReadBytes, ok))
        /\ IF ok
           THEN pc' = "avg_poll" /\ UNCHANGED result
           ELSE pc' = "panic" /\ result' = [kind |-> "panic", value |-> <<>>]
    /\ UNCHANGED <<api, args, r, values, i, idx, recv, readings, results,
                   devStatus, params, probe, query, lookup, device>>

\* if !self.status()?.done() { sleep }, then the next i of 1..(3+rounds)
AvgPoll ==
    /\ pc = "avg_poll"
    /\ \E ok \in BOOLEAN :
        /\ bus' = Append(bus, Tx("transfer", StatusReadBytes, ok))
        /\ IF ok
           THEN /\ i' = i + 1
                /\ pc' = IF i + 1 < 3 + args.rounds THEN "avg_print" ELSE "avg_final"
                /\ UNCHANGED result
           ELSE Return("SpiError", <<>>) /\ UNCHANGED i
    /\ UNCHANGED <<api, args, r, values, idx, recv, readings, results,
                   devStatus, params, probe, query, lookup, device>>

\* if !self.status()?.done() { break }
AvgFinalStatus ==
    /\ pc = "avg_final"
    /\ \E ok \in BOOLEAN :
        /\ bus' = Append(bus, Tx("transfer", StatusReadBytes, ok))
        /\ IF ok
           THEN /\ pc' = IF StatusFrom(devStatus).done THEN "rt_transfer" ELSE "avg_reduce"
                /\ UNCHANGED result
           ELSE Return("SpiError", <<>>)
    /\ UNCHANGED <<api, args, r, values, i, idx, recv, readings, results,
                   devStatus, params, probe, query, lookup, device>>

\* values.into_iter().reduce(+).and_then(v / rounds).ok_or(AvgCalculationError)
AvgReduce ==
    /\ pc = "avg_reduce"
    /\ IF values = <<>>
       THEN Return("AvgCalculationError", <<>>)
       ELSE Return("Ok", <<SeqSum(values), args.rounds>>)
    /\ UNCHANGED <<api, args, r, values, i, idx, bus, recv, readings,
                   results, devStatus, params, probe, query, lookup, device>>

---------------------------------------------------------------------------
(* get_multi_temperature_avg.                                              *)

\* while r < rounds
MultiAvgWhile ==
    /\ pc = "mavg_while"
    /\ IF r < args.rounds
       THEN pc' = "smc_mask"
       ELSE pc' = "mavg_reduce"
    /\ UNCHANGED <<api, args, r, values, i, idx, bus, recv, readings,
                   results, result, devStatus, params, probe, query, lookup, device>>

\* while !self.status()?.done {}, then read_multi_temperature starts
MultiAvgPoll ==
    /\ pc = "mavg_poll"
    /\ \E ok \in BOOLEAN :
        /\ bus' = Log(Tx("transfer", StatusReadBytes, ok))
        /\ IF ok
           THEN /\ pc' = IF ~StatusFrom(devStatus).done THEN "mavg_poll"
                         ELSE IF args.channels = <<>> THEN "mavg_round"
                         ELSE "rt_transfer"
                /\ idx' = 1
                /\ results' = <<>>
                /\ UNCHANGED result
           ELSE Return("SpiError", <<>>) /\ UNCHANGED <<idx, results>>
    /\ UNCHANGED <<api, args, r, values, i, recv, readings,
                   devStatus, params, probe, query, lookup, device>>

\* the Valid temperatures of a round's results, in order
RECURSIVE ValidValues(_)
ValidValues(res) ==
    IF res = <<>> THEN <<>>
    ELSE IF Head(res).kind = "Valid"
         THEN <<Head(res).value>> \o ValidValues(Tail(res))
         ELSE ValidValues(Tail(res))

\* a round that is discarded whatever was read
MultiAvgRound_discard ==
    /\ pc = "mavg_round"
    /\ results' = <<>>
    /\ pc' = "mavg_while"
    /\ UNCHANGED <<api, args, r, values, i, idx, bus, recv, readings, result,
                   devStatus, params, probe, query, lookup, device>>

\* the for loop over the round's results filling the locals v and was_error,
\* then `if !was_error { values.push(v); r += 1 }`; the results are consumed
MultiAvgRound ==
    /\ pc = "mavg_round"
    /\ LET was_error == \E k \in DOMAIN results : results[k].kind # "Valid"
           v == ValidValues(results)
       IN  IF ~was_error
           THEN values' = Append(values, v) /\ r' = r + 1
           ELSE UNCHANGED <<values, r>>
    /\ results' = <<>>
    /\ pc' = "mavg_while"
    /\ UNCHANGED <<api, args, i, idx, bus, recv, readings, result,
                   devStatus, params, probe, query, lookup, device>>

\* a reduce that keeps the first round only
ZipAdd_keep(acc, e) == acc

\* acc.iter().zip(e.iter()).map(a + b): as long as the shorter of the two
ZipAdd(acc, e) ==
    [k \in 1..(IF Len(acc) < Len(e) THEN Len(acc) ELSE Len(e)) |-> acc[k] + e[k]]

RECURSIVE ReduceZipAdd(_, _)
ReduceZipAdd(acc, rest) ==
    IF rest = <<>> THEN acc ELSE ReduceZipAdd(ZipAdd(acc, Head(rest)), Tail(rest))

\* a reduce that divides whatever was accumulated, nothing included
MultiAvgReduce_unchecked ==
    /\ pc = "mavg_reduce"
    /\ IF values = <<>>
       THEN Return("Ok", <<<<>>, args.rounds>>)
       ELSE Return("Ok", <<ReduceZipAdd(Head(values), Tail(values)), args.rounds>>)
    /\ UNCHANGED <<api, args, r, values, i, idx, bus, recv, readings,
                   results, devStatus, params, probe, query, lookup, device>>

\* values.into_iter().reduce(zip add).and_then(each / rounds).ok_or(AvgCalculationError)
MultiAvgReduce ==
    /\ pc = "mavg_reduce"
    /\ IF values = <<>>
       THEN Return("AvgCalculationError", <<>>)
       ELSE Return("Ok", <<ReduceZipAdd(Head(values), Tail(values)), args.rounds>>)
    /\ UNCHANGED <<api, args, r, values, i, idx, bus, recv, readings,
                   results, devStatus, params, probe, query, lookup, device>>

---------------------------------------------------------------------------
(* The sensor configuration model: enumerations and their codes.           *)

SensorConfiguration == {"SingleEnded", "Differential"}

SensorConfiguration_identifier(c) ==
    CASE c = "SingleEnded" -> 1
      [] c = "Differential" -> 0

LTC2983OcCurrent == {"External", "I10uA", "I100uA", "I500uA", "I1mA"}

LTC2983OcCurrent_identifier(c) ==
    CASE c = "External" -> 0
      [] c = "I10uA" -> 4
      [] c = "I100uA" -> 5
      [] c = "I500uA" -> 6
      [] c = "I1mA" -> 7

RTDCurve == {"EuropeanStandard", "American", "Japanese", "ITS_90"}

RTDCurve_identifier(c) ==
    CASE c = "EuropeanStandard" -> 0
      [] c = "American" -> 1
      [] c = "Japanese" -> 2
      [] c = "ITS_90" -> 3

RTDWireCount == {"Wire2", "Wire3", "Wire4", "Wire4KelvinRsense"}

RTDWireCount_identifier(w) ==
    CASE w = "Wire2" -> 0
      [] w = "Wire3" -> 1
      [] w = "Wire4" -> 2
      [] w = "Wire4KelvinRsense" -> 3

RTDExcitationCurrent ==
    {"I5uA", "I10uA", "I25uA", "I50uA", "I100uA", "I250uA", "I500uA", "I1mA"}

RTDExcitationCurrent_identifier(c) ==
    CASE c = "I5uA" -> 1
      [] c = "I10uA" -> 2
      [] c = "I25uA" -> 3
      [] c = "I50uA" -> 4
      [] c = "I100uA" -> 5
      [] c = "I250uA" -> 6
      [] c = "I500uA" -> 7
      [] c = "I1mA" -> 8

DiodeReadingCount == {"READ2", "READ3"}

DiodeReadingCount_identifier(c) ==
    CASE c = "READ2" -> 0
      [] c = "READ3" -> 1

DiodeExcitationCurrent == {"I10uA", "I20uA", "I40uA", "I80uA"}

DiodeExcitationCurrent_identifier(c) ==
    CASE c = "I10uA" -> 0
      [] c = "I20uA" -> 1
      [] c = "I40uA" -> 2
      [] c = "I80uA" -> 3

ThermocoupleTypes ==
    {"Thermocouple_J", "Thermocouple_K", "Thermocouple_E", "Thermocouple_N",
     "Thermocouple_R", "Thermocouple_S", "Thermocouple_T", "Thermocouple_B"}

RTDTypes ==
    {"RTD_PT10", "RTD_PT50", "RTD_PT100", "RTD_PT200", "RTD_PT500", "RTD_PT1000",
     "RTD_1000", "RTD_NI120"}

ThermistorTypes ==
    {"Thermistor_44004_44033", "Thermistor_44005_44030", "Thermistor_44007_44034",
     "Thermistor_44006_44031", "Thermistor_44008_44032", "Thermistor_YSI400",
     "Thermistor_Spectrum"}

ThermalProbeType_identifier(t) ==
    CASE t = "Thermocouple_J" -> 1
      [] t = "Thermocouple_K" -> 2
      [] t = "Thermocouple_E" -> 3
      [] t = "Thermocouple_N" -> 4
      [] t = "Thermocouple_R" -> 5
      [] t = "Thermocouple_S" -> 6
      [] t = "Thermocouple_T" -> 7
      [] t = "Thermocouple_B" -> 8
      [] t = "RTD_PT10" -> 10
      [] t = "RTD_PT50" -> 11
      [] t = "RTD_PT100" -> 12
      [] t = "RTD_PT200" -> 13
      [] t = "RTD_PT500" -> 14
      [] t = "RTD_PT1000" -> 15
      [] t = "RTD_1000" -> 16
      [] t = "RTD_NI120" -> 17
      [] t = "Thermistor_44004_44033" -> 19
      [] t = "Thermistor_44005_44030" -> 20
      [] t = "Thermistor_44007_44034" -> 21
      [] t = "Thermistor_44006_44031" -> 22
      [] t = "Thermistor_44008_44032" -> 23
      [] t = "Thermistor_YSI400" -> 24
      [] t = "Thermistor_Spectrum" -> 25
      [] t = "Diode" -> 28
      [] t = "SenseResistor" -> 29

---------------------------------------------------------------------------
(* Parameter records, their defaults and their encodings.                  *)

\* Option<T>
None == <<>>
Some(x) == <<x>>

\* impl Default for ThermocoupleParameters
ThermocoupleDefault ==
    [family |-> "Thermocouple", cold_junction_channel |-> None,
     sensor_configuration |-> "SingleEnded", oc_current |-> "I10uA",
     custom_address |-> None]

\* ThermocoupleParameters::config_to_bits
config_to_bits(p) ==
    BitOr(BitOr(0, Shl(SensorConfiguration_identifier(p.sensor_configuration), 3)),
          LTC2983OcCurrent_identifier(p.oc_current))

\* every RTDSensorConfiguration its three setters can build
RTDSensorConfigurations ==
    [wire_cnt : RTDWireCount, external : BOOLEAN, current_source_rotation : BOOLEAN]

\* impl Default for RTDSensorConfiguration
RTDSensorConfigurationDefault ==
    [wire_cnt |-> "Wire2", external |-> FALSE, current_source_rotation |-> FALSE]

\* to_bits rotating the current source whatever the wire count
RTDSensorConfiguration_to_bits_any_wire(c) ==
    LET bits0 == Shl(BitOr(0, RTDWireCount_identifier(c.wire_cnt)), 2)
    IN  IF c.current_source_rotation
        THEN Shl(BitOr(bits0, 1), 1)
        ELSE IF ~c.external THEN BitOr(bits0, 1) ELSE bits0

\* RTDSensorConfiguration::to_bits
RTDSensorConfiguration_to_bits(c) ==
    LET bits0 == Shl(BitOr(0, RTDWireCount_identifier(c.wire_cnt)), 2)
    IN  IF c.current_source_rotation /\ c.wire_cnt # "Wire2" /\ c.wire_cnt # "Wire3"
        THEN Shl(BitOr(bits0, 1), 1)
        ELSE IF ~c.external THEN BitOr(bits0, 1) ELSE bits0

\* impl Default for RTDParameters
RTDDefault ==
    [family |-> "RTD", r_sense_channel |-> "CH2",
     sensor_configuration |-> RTDSensorConfigurationDefault,
     excitation_current |-> "I5uA", curve |-> "EuropeanStandard",
     custom_address |-> None]

\* impl Default for DiodeParameters
DiodeDefault ==
    [family |-> "Diode", sensor_configuration |-> "SingleEnded",
     num_reading |-> "READ2", avg |-> TRUE, excitation_current |-> "I10uA",
     idealitiy_factor |-> None]

\* FixedU32::<U20>::from_num(factor).to_bits(), the factor given in quarters
\* (factor = q / 4, q < 8192): q * 2^18
IdealityBits(q) == Shl(q, 18)

\* DiodeParameters::to_bits without the 22-bit mask on the ideality factor
DiodeParameters_to_bits_unmasked(p) ==
    BitOr(BitOr(BitOr(BitOr(BitOr(0,
        Shl(SensorConfiguration_identifier(p.sensor_configuration), 26)),
        Shl(DiodeReadingCount_identifier(p.num_reading), 25)),
        Shl(IF p.avg THEN 1 ELSE 0, 24)),
        Shl(DiodeExcitationCurrent_identifier(p.excitation_current), 22)),
        IF p.idealitiy_factor = None THEN 0
        ELSE IdealityBits(p.idealitiy_factor[1]))

\* DiodeParameters::to_bits
DiodeParameters_to_bits(p) ==
    BitOr(BitOr(BitOr(BitOr(BitOr(0,
        Shl(SensorConfiguration_identifier(p.sensor_configuration), 26)),
        Shl(DiodeReadingCount_identifier(p.num_reading), 25)),
        Shl(IF p.avg THEN 1 ELSE 0, 24)),
        Shl(DiodeExcitationCurrent_identifier(p.excitation_current), 22)),
        IF p.idealitiy_factor = None THEN 0
        ELSE BitAnd(IdealityBits(p.idealitiy_factor[1]), 4194303))

\* match &param.custom_address { None => 0, Some(addr) => *addr }
AddressOrZero(a) == IF a = None THEN 0 ELSE a[1]

\* FixedU32::<U10>::from_num(resistance).to_bits(), the resistance in whole
\* ohms (below 2^21): ohms * 2^10
ResistanceBits(ohms) == Shl(ohms, 10)

\* the seven bytes setup_channel writes for a probe on a channel
SetupBytes(pr, channel) ==
    LET hdr == write_u16(write_u8(NewBuffer, LTC2983_WRITE), start_address(channel))
        id  == write_bits(hdr, ThermalProbeType_identifier(pr.type), 5)
        p   == pr.param
    IN  CASE pr.type \in ThermocoupleTypes ->
                as_bytes(write_bits(write_bits(write_bits(write_bits(id,
                    IF p.cold_junction_channel = None THEN 0
                    ELSE identifier(p.cold_junction_channel[1]), 5),
                    config_to_bits(p), 4),
                    0, 6),
                    AddressOrZero(p.custom_address), 12))
          [] pr.type \in RTDTypes ->
                as_bytes(write_bits(write_bits(write_bits(write_bits(write_bits(id,
                    identifier(p.r_sense_channel), 5),
                    RTDSensorConfiguration_to_bits(p.sensor_configuration), 4),
                    RTDExcitationCurrent_identifier(p.excitation_current), 4),
                    RTDCurve_identifier(p.curve), 2),
                    AddressOrZero(p.custom_address), 12))
          [] pr.type = "Diode" ->
                as_bytes(write_bits(id, DiodeParameters_to_bits(p), 27))
          [] pr.type = "SenseResistor" ->
                as_bytes(write_bits(id, ResistanceBits(p), 27))

---------------------------------------------------------------------------
(* The builders.  A builder call is made between driver calls.            *)

Building == pc = "idle"

\* X::default(): a new parameter record
NewParams(p) ==
    /\ Building
    /\ params' = p
    /\ UNCHANGED <<driverVars, probe, query, lookup, device>>

\* a setter: the record with one field replaced
SetField(family, field, value) ==
    /\ Building
    /\ params.family = family
    /\ params' = [params EXCEPT ![field] = value]
    /\ UNCHANGED <<driverVars, probe, query, lookup, device>>

ThermocoupleCustomAddresses == {2748, 8191}

ThermocoupleBuilder ==
    \/ \E ch \in LTC2983Channel : SetField("Thermocouple", "cold_junction_channel", Some(ch))
    \/ \E c \in SensorConfiguration : SetField("Thermocouple", "sensor_configuration", c)
    \/ \E a \in ThermocoupleCustomAddresses : SetField("Thermocouple", "custom_address", Some(a))
    \/ \E c \in LTC2983OcCurrent : SetField("Thermocouple", "oc_current", c)

\* RTDParameters::channel accepting CH1 like any other channel
RTDChannel_unchecked(channel) ==
    SetField("RTD", "r_sense_channel", channel)

\* RTDParameters::channel
RTDChannel(channel) ==
    IF channel = "CH1"
    THEN /\ Building
         /\ params.family = "RTD"
         /\ params' = NoParams
         /\ pc' = "panic"
         /\ result' = [kind |-> "panic", value |-> <<"CH1 can not be used">>]
         /\ UNCHANGED <<api, args, r, values, i, idx, bus, recv,
                        readings, results, devStatus, probe, query, lookup, device>>
    ELSE SetField("RTD", "r_sense_channel", channel)

RTDBuilder ==
    \/ \E c \in RTDCurve : SetField("RTD", "curve", c)
    \/ \E c \in RTDExcitationCurrent : SetField("RTD", "excitation_current", c)
    \/ \E c \in RTDSensorConfigurations : SetField("RTD", "sensor_configuration", c)
    \/ \E ch \in LTC2983Channel : RTDChannel(ch)

\* ideality factors, in quarters: 1.0, 1.25, 3.75 and 4.25
IdealityFactors == {4, 5, 15, 17}

DiodeBuilder ==
    \/ \E c \in SensorConfiguration : SetField("Diode", "sensor_configuration", c)
    \/ \E c \in DiodeReadingCount : SetField("Diode", "num_reading", c)
    \/ \E c \in DiodeExcitationCurrent : SetField("Diode", "excitation_current", c)
    \/ \E b \in BOOLEAN : SetField("Diode", "avg", b)
    \/ \E q \in IdealityFactors : SetField("Diode", "idealitiy_factor", Some(q))

---------------------------------------------------------------------------
(* The device's configuration registers.  A device that stores what is     *)
(* written holds one byte per address of the registers of DeviceChannels   *)
(* and, as a record of what happened, the channels whose setup_channel     *)
(* write succeeded; NoMemory stands for a device of which only the bus     *)
(* is observed.                                                            *)

NoMemory == [kind |-> "none"]

DeviceChannels == {"CH1", "CH2", "CH20"}

\* the addresses of the configuration registers of DeviceChannels
ConfigAddresses ==
    UNION {start_address(c)..(start_address(c) + 3) : c \in DeviceChannels}

\* a device with every configuration register zero
ZeroedMemory ==
    [kind |-> "memory", mem |-> [a \in ConfigAddresses |-> 0], configured |-> {}]

\* the device after a write [LTC2983_WRITE, address, data...] that succeeded,
\* made by setup_channel(_, channel): the data bytes are stored from the
\* address on
Stored(bytes, channel) ==
    IF device = NoMemory THEN device
    ELSE LET addr == bytes[2] * 256 + bytes[3]
         IN  [device EXCEPT
                !.mem = [a \in ConfigAddresses |->
                            IF a >= addr /\ a - addr + 4 <= Len(bytes)
                            THEN bytes[a - addr + 4] ELSE @[a]],
                !.configured = @ \cup {channel}]

---------------------------------------------------------------------------
(* setup_channel.                                                          *)

\* setup_channel(probe, channel): one write of the configuration word; the
\* thermistor variants are unimplemented!()
SetupChannel(pr, channel) ==
    /\ Building
    /\ api' = "setup_channel"
    /\ args' = [channel |-> channel, channels |-> <<>>, rounds |-> 0]
    /\ probe' = pr
    /\ params' = NoParams
    /\ IF pr.type \in ThermistorTypes
       THEN /\ pc' = "panic"
            /\ result' = [kind |-> "panic", value |-> <<"not implemented">>]
            /\ bus' = <<>>
            /\ UNCHANGED device
       ELSE \E ok \in BOOLEAN :
            /\ bus' = <<Tx("write", SetupBytes(pr, channel), ok)>>
            /\ IF ok
               THEN Return("Ok", <<>>) /\ device' = Stored(SetupBytes(pr, channel), channel)
               ELSE Return("SpiError", <<>>) /\ UNCHANGED device
    /\ UNCHANGED <<r, values, i, idx, recv, readings, results,
                   devStatus, query, lookup>>

---------------------------------------------------------------------------
(* channel_enabled.                                                        *)

\* channel_enabled: [LTC2983_READ, configuration address, one dummy byte]
ChannelEnabledBytes(channel) ==
    as_bytes(write_u8(write_u16(write_u8(NewBuffer, LTC2983_READ),
                                start_address(channel)), 0))

\* what the device answers a read of one byte at an address with
Answer(addr) == IF device = NoMemory THEN Byte ELSE {device.mem[addr]}

\* channel_enabled testing the low three bits of the byte read
ChannelEnabled_low_bits(channel) ==
    /\ Building
    /\ api' = "channel_enabled"
    /\ args' = [channel |-> channel, channels |-> <<>>, rounds |-> 0]
    /\ \E ok \in BOOLEAN :
        /\ bus' = <<Tx("transfer", ChannelEnabledBytes(channel), ok)>>
        /\ IF ok
           THEN \E b \in Answer(start_address(channel)) :
                    recv' = <<b>> /\ Return("Ok", <<BitAnd(b, 7) # 0>>)
           ELSE recv' = <<>> /\ Return("Ok", <<FALSE>>)
    /\ UNCHANGED <<r, values, i, idx, readings, results,
                   devStatus, params, probe, query, lookup, device>>

\* channel_enabled(channel): one 4-byte transfer; true when recv[3] & 0xf8 is
\* not zero, false otherwise and on a transport error
ChannelEnabled(channel) ==
    /\ Building
    /\ api' = "channel_enabled"
    /\ args' = [channel |-> channel, channels |-> <<>>, rounds |-> 0]
    /\ \E ok \in BOOLEAN :
        /\ bus' = <<Tx("transfer", ChannelEnabledBytes(channel), ok)>>
        /\ IF ok
           THEN \E b \in Answer(start_address(channel)) :
                    recv' = <<b>> /\ Return("Ok", <<BitAnd(b, 248) # 0>>)
           ELSE recv' = <<>> /\ Return("Ok", <<FALSE>>)
    /\ UNCHANGED <<r, values, i, idx, readings, results,
                   devStatus, params, probe, query, lookup, device>>

\* the variants the parameter record under construction can be wrapped in
TypesOf(family) ==
    CASE family = "Thermocouple" -> ThermocoupleTypes
      [] family = "RTD" -> RTDTypes
      [] family = "Diode" -> {"Diode"}
      [] OTHER -> {}

\* sense resistances, in ohms
Resistances == {1000, 131073}

SetupChannels == {"CH1", "CH20"}

---------------------------------------------------------------------------
(* Specifications.                                                         *)

DriverIdle ==
    /\ api = "none"
    /\ args = NoArgs
    /\ pc = "idle"
    /\ r = 0
    /\ values = <<>>
    /\ i = 0
    /\ idx = 1
    /\ bus = <<>>
    /\ recv = <<>>
    /\ readings = <<>>
    /\ results = <<>>
    /\ result = NoResult
    /\ devStatus = StatusDone

\* the channels the averaging calls are given
AvgChannels == {"CH1", "CH20"}

\* the channel lists get_multi_temperature_avg is given
AvgChannelLists == {<<>>, <<"CH1">>, <<"CH20", "CH1">>}

\* the channels the lists of start_multi_conversion are drawn from
MaskChannels == {"CH1", "CH3", "CH20"}

\* result registers the device answers the averaging loops with: 1.0 and -1.0
\* Valid, 1.0 with error byte 0x80 (Suspect), and error byte 0x02 (Invalid)
RxSmall ==
    {<<1, 0, 4, 0>>, <<1, 255, 252, 0>>, <<128, 0, 4, 0>>, <<2, 0, 0, 0>>}

Init ==
    /\ DriverIdle
    /\ params = NoParams
    /\ probe = NoProbe
    /\ query = <<>>
    /\ lookup = NoLookup
    /\ device = NoMemory

Next ==
    \/ \E ch \in LTC2983Channel :
        Call("start_conversion", [channel |-> ch, channels |-> <<>>, rounds |-> 0])
    \/ \E chs \in SeqsUpTo(MaskChannels, MaxChannels) :
        Call("start_multi_conversion", [channel |-> "-", channels |-> chs, rounds |-> 0])
    \/ \E ch \in AvgChannels, n \in 0..MaxRounds :
        Call("get_temperature_avg", [channel |-> ch, channels |-> <<>>, rounds |-> n])
    \/ \E chs \in AvgChannelLists, n \in 0..MaxRounds :
        Call("get_multi_temperature_avg", [channel |-> "-", channels |-> chs, rounds |-> n])
    \/ \E chs \in AvgChannelLists :
        Call("read_multi_temperature", [channel |-> "-", channels |-> chs, rounds |-> 0])
    \/ StartConversionWrite
    \/ StartMultiMaskWrite
    \/ StartMultiCommandWrite
    \/ ReadTransfer(RxSmall)
    \/ ReadMultiIter
    \/ AvgWhile
    \/ AvgPollPrint
    \/ AvgPoll
    \/ AvgFinalStatus
    \/ AvgReduce
    \/ MultiAvgWhile
    \/ MultiAvgPoll
    \/ MultiAvgRound
    \/ MultiAvgReduce
    \/ ReturnToCaller
    \/ DeviceComplete

Spec == Init /\ [][Next]_vars

\* the register map alone: every pair of channels is looked up
InitChannel ==
    /\ DriverIdle
    /\ params = NoParams
    /\ probe = NoProbe
    /\ query \in LTC2983Channel \X LTC2983Channel
    /\ lookup = NoLookup
    /\ device = NoMemory

NextChannel == ChannelLookup

SpecChannel == InitChannel /\ [][NextChannel]_vars

\* magnitude bytes the device answers read_temperature with
MagnitudeBytes ==
    {0, 16, 127, 128, 248, 251, 255} \X {0, 4, 187, 209, 252, 255}
        \X {0, 1, 82, 103, 255}

\* every error byte with every sampled magnitude
RxWide == {<<e, m[1], m[2], m[3]>> : e \in Byte, m \in MagnitudeBytes}

ReadChannels == {"CH1", "CH20"}

NextResult ==
    \/ \E ch \in ReadChannels :
        Call("read_temperature", [channel |-> ch, channels |-> <<>>, rounds |-> 0])
    \/ ReadTransfer(RxWide)
    \/ ReturnToCaller

SpecResult == Init /\ [][NextResult]_vars

\* the builders and setup_channel
NextConfig ==
    \/ NewParams(ThermocoupleDefault)
    \/ NewParams(RTDDefault)
    \/ NewParams(DiodeDefault)
    \/ ThermocoupleBuilder
    \/ RTDBuilder
    \/ DiodeBuilder
    \/ \E t \in TypesOf(params.family), ch \in SetupChannels :
        SetupChannel([type |-> t, param |-> params], ch)
    \/ \E ohms \in Resistances, ch \in SetupChannels :
        SetupChannel([type |-> "SenseResistor", param |-> ohms], ch)
    \/ \E t \in ThermistorTypes, ch \in SetupChannels :
        SetupChannel([type |-> t], ch)
    \/ ReturnToCaller

SpecConfig == Init /\ [][NextConfig]_vars

---------------------------------------------------------------------------
(* Properties.                                                             *)

\* the 24-bit two's-complement value of three magnitude bytes
TwosComplement24(b0, b1, b2) ==
    LET u == b0 * 65536 + b1 * 256 + b2
    IN  IF u >= 8388608 THEN u - 16777216 ELSE u

\* the four big-endian bytes of a mask below 2^24
MaskBytes(m) == <<0, (m \div 65536) % 256, (m \div 256) % 256, m % 256>>

\* the sum of 2^(n-1) over a set of channels CHn
RECURSIVE MaskOfSet(_)
MaskOfSet(S) ==
    IF S = {} THEN 0
    ELSE LET c == CHOOSE x \in S : TRUE
         IN  Pow2(Ord(c) - 1) + MaskOfSet(S \ {c})

\* the byte ranges [x, x+lx) and [y, y+ly) share a byte
Overlap(x, lx, y, ly) == x < y + ly /\ y < x + lx

AvgReturned == api = "get_temperature_avg" /\ pc = "done"

\* C1: when get_temperature_avg returns without a transport error and without
\* `rounds` accumulated Valid readings it returns AvgCalculationError; an Ok
\* result implies exactly `rounds` accumulated Valid readings.
C1_OkImpliesAllRounds ==
    AvgReturned =>
        /\ (result.kind # "SpiError" /\ Len(values) # args.rounds
                => result.kind = "AvgCalculationError")
        /\ (result.kind = "Ok" => Len(values) = args.rounds)

\* the Valid readings of a script, in order
ValidOf(script) == SelectSeq(script, LAMBDA x : x.kind = "Valid")

\* C2: when the device reports done in every round and every read succeeds,
\* get_temperature_avg starts exactly as many conversions as the position of
\* the `rounds`-th Valid reading in the script of readings, and returns the sum
\* of exactly those Valid values divided by `rounds`.
C2_ConsumesExactlyNeededRounds ==
    (/\ AvgReturned
     /\ result.kind = "Ok"
     /\ Len(readings) = Starts
     /\ \A k \in DOMAIN readings : readings[k] # Failed)
    =>
        /\ Len(ValidOf(readings)) = args.rounds
        /\ readings[Starts].kind = "Valid"
        /\ Len(ValidOf(SubSeq(readings, 1, Starts - 1))) = args.rounds - 1
        /\ result.value =
              <<SeqSum([k \in DOMAIN ValidOf(readings) |-> ValidOf(readings)[k].value]),
                args.rounds>>

\* a call of two rounds that met an Invalid reading between two Valid ones
C2_Witness ==
    /\ AvgReturned
    /\ result.kind = "Ok"
    /\ args.rounds = 2
    /\ Starts = 3
    /\ Len(readings) = 3
    /\ readings[1] = Valid(1024)
    /\ readings[2].kind = "Invalid"
    /\ readings[3] = Valid(-1024)
    /\ result.value = <<0, 2>>

\* C3: in the averaging calls a transport failure of any bus transaction ends
\* the call with SpiError: the driver does not panic and issues no further
\* transaction after the failed one.
C3_TransportFailurePropagates ==
    api \in {"get_temperature_avg", "get_multi_temperature_avg"} =>
        /\ pc # "panic"
        /\ \A k \in DOMAIN bus : ~bus[k].ok => k = Len(bus)
        /\ (\E k \in DOMAIN bus : ~bus[k].ok)
              => pc = "done" /\ result.kind = "SpiError"

ReadReturned == api = "read_temperature" /\ pc = "done" /\ result.kind = "Ok"

C8_SignExtension ==
    ReadReturned =>
        LET m == SubSeq(recv, 2, 4)
            res == result.value
            ref(raw, num, den) ==
                raw * den - num * 1024 < den /\ num * 1024 - raw * den < den
        IN  /\ reformat_fixedf24_to_fixed_f32(m)
                  = <<IF m[1] >= 128 THEN 255 ELSE 0, m[1], m[2], m[3]>>
            /\ res.kind \in {"Valid", "Suspect"} =>
                /\ res.value = TwosComplement24(m[1], m[2], m[3])
                /\ res.value >= -8388608 /\ res.value <= 8388607
                /\ m = <<127, 255, 255>> => res.value = 8388607
                /\ m = <<16, 0, 0>> => res.value = 1024 * 1024
                /\ m = <<0, 4, 0>> => res.value = 1024
                /\ m = <<0, 0, 1>> => res.value = 1
                /\ m = <<0, 0, 0>> => res.value = 0
                /\ m = <<255, 255, 255>> => res.value = -1
                /\ m = <<255, 252, 0>> => res.value = -1024
                /\ m = <<251, 187, 103>> => ref(res.value, -27315, 100)
                /\ m = <<248, 209, 82>> => ref(res.value, -45967, 100)

\* the magnitude [0xfb, 0xbb, 0x67] read as a Valid -279705/1024 (about -273.15)
C8_Witness ==
    /\ ReadReturned
    /\ recv = <<1, 251, 187, 103>>
    /\ result.value = Valid(-279705)

\* C9: for CHn, start_address = 0x200 + 4(n-1), result_address = 0x010 + 4(n-1),
\* identifier = n and mask = 1 << (n-1); the addresses strictly increase with n
\* and the 4-byte ranges never overlap each other, the status register or the
\* mask register.
C9_RegisterMap ==
    lookup.done =>
        LET n == Ord(query[1])
            m == Ord(query[2])
            a == lookup.a
            b == lookup.b
        IN  /\ n \in 1..20
            /\ a.start_address = 512 + 4 * (n - 1)
            /\ a.result_address = 16 + 4 * (n - 1)
            /\ a.identifier = n
            /\ a.mask = Pow2(n - 1)
            /\ n < m => /\ a.start_address < b.start_address
                        /\ a.result_address < b.result_address
            /\ n # m => /\ ~Overlap(a.start_address, 4, b.start_address, 4)
                        /\ ~Overlap(a.result_address, 4, b.result_address, 4)
            /\ ~Overlap(a.start_address, 4, b.result_address, 4)
            /\ \A x \in {a.start_address, a.result_address} :
                  /\ ~Overlap(x, 4, STATUS_REGISTER, 4)
                  /\ ~Overlap(x, 4, MULTI_CHANNEL_MASK_REGISTER, 4)

\* CH20 and CH19 looked up: neighbouring registers four bytes apart
C9_Witness ==
    /\ lookup.done
    /\ query = <<"CH20", "CH19">>
    /\ lookup.a = [start_address |-> 588, result_address |-> 92,
                   identifier |-> 20, mask |-> 524288]
    /\ lookup.b.result_address = 88

\* C7: start_multi_conversion writes [0x02, 0x00, 0xF4] and the big-endian mask
\* of the listed channels (whatever their order and repetitions), then the start
\* command [0x02, 0x00, 0x00, 0x80]; the start command is never sent after a
\* failed mask write.
C7_MaskThenStart ==
    api = "start_multi_conversion" =>
        LET expected == MaskOfSet({args.channels[k] : k \in DOMAIN args.channels})
        IN  /\ Len(bus) <= 2
            /\ Len(bus) >= 1 =>
                  /\ bus[1].op = "write"
                  /\ bus[1].tx = <<2, 0, 244>> \o MaskBytes(expected)
            /\ Len(bus) = 2 =>
                  /\ bus[1].ok
                  /\ bus[2].op = "write"
                  /\ bus[2].tx = <<2, 0, 0, 128>>
            /\ (pc = "done" /\ result.kind = "Ok") =>
                  Len(bus) = 2 /\ bus[1].ok /\ bus[2].ok
            /\ (pc = "done" /\ result.kind # "Ok") =>
                  result.kind = "SpiError" /\ ~bus[Len(bus)].ok

\* the list CH20, CH1, CH3 started with mask (1<<0)|(1<<2)|(1<<19)
C7_Witness ==
    /\ api = "start_multi_conversion"
    /\ pc = "done"
    /\ result.kind = "Ok"
    /\ args.channels = <<"CH20", "CH1", "CH3">>
    /\ bus = <<Tx("write", <<2, 0, 244, 0, 8, 0, 5>>, TRUE),
               Tx("write", <<2, 0, 0, 128>>, TRUE)>>

\* C10: start_conversion(CHn) issues exactly one write, of the four bytes
\* [0x02, 0x00, 0x00, 0x80 | n] with n in 1..20: command bits 100 in bits 7..5
\* and a channel field that is never 0.
C10_SingleStartCommand ==
    api = "start_conversion" =>
        /\ pc = "sc_write" => bus = <<>>
        /\ pc = "done" =>
            LET n == Ord(args.channel)
            IN  /\ Len(bus) = 1
                /\ bus[1].op = "write"
                /\ bus[1].tx = <<2, 0, 0, 128 + n>>
                /\ bus[1].tx[4] \div 32 = 4
                /\ bus[1].tx[4] % 32 \in 1..20
                /\ (result.kind = "Ok") = bus[1].ok

\* start_conversion(CH20) sent [0x02, 0x00, 0x00, 0x94]
C10_Witness ==
    /\ api = "start_conversion"
    /\ pc = "done"
    /\ result.kind = "Ok"
    /\ args.channel = "CH20"
    /\ bus = <<Tx("write", <<2, 0, 0, 148>>, TRUE)>>

SetupReturned == api = "setup_channel" /\ pc = "done"

\* the 32-bit word of the write setup_channel issued
SetupWord == SubSeq(bus[1].tx, 4, 7)

\* the choices of S whose code is `code`
Decoded(S, Code(_), code) == {x \in S : Code(x) = code}

C5_NoChannel1 ==
    /\ params.family = "RTD" => params.r_sense_channel # "CH1"
    /\ (api = "setup_channel" /\ probe.type \in RTDTypes) =>
          /\ probe.param.r_sense_channel # "CH1"
          /\ pc = "done" => Field(SetupWord, 26, 22) \in 2..20

\* C5: no sequence of RTDParameters builder calls leaves CH1 as the sense
\* resistor channel: channel(CH1) panics and returns no record, so bits 26..22
\* of every RTD configuration word setup_channel writes lie in 2..20, for every
\* RTD sub-type.
C5_RTDReferenceNeverChannel1 ==
    /\ []C5_NoChannel1
    /\ [][RTDChannel("CH1") => (pc' = "panic" /\ params' = NoParams)]_vars

\* channel(CH1) was called on an RTD record and panicked
C5_Witness ==
    /\ pc = "panic"
    /\ result = [kind |-> "panic", value |-> <<"CH1 can not be used">>]
    /\ params = NoParams

\* the fields of a thermocouple word give back the configured choices
ThermocoupleRecovered(word, p) ==
    /\ Decoded(LTC2983Channel, identifier, Field(word, 26, 22))
          = (IF p.cold_junction_channel = None THEN {}
             ELSE {p.cold_junction_channel[1]})
    /\ (Field(word, 21, 21) = 1) = (p.sensor_configuration = "SingleEnded")
    /\ Decoded(LTC2983OcCurrent, LTC2983OcCurrent_identifier, Field(word, 20, 18))
          = {p.oc_current}

\* the fields of an RTD word other than the wire count
RTDOtherFieldsRecovered(word, p) ==
    /\ Decoded(LTC2983Channel, identifier, Field(word, 26, 22)) = {p.r_sense_channel}
    /\ Decoded(RTDExcitationCurrent, RTDExcitationCurrent_identifier,
               Field(word, 17, 14)) = {p.excitation_current}
    /\ Decoded(RTDCurve, RTDCurve_identifier, Field(word, 13, 12)) = {p.curve}

\* bits 21..20 of an RTD word give back the wire count
RTDWireCountRecovered(word, p) ==
    Decoded(RTDWireCount, RTDWireCount_identifier, Field(word, 21, 20))
        = {p.sensor_configuration.wire_cnt}

\* the fields of a diode word give back the configured choices
DiodeRecovered(word, p) ==
    /\ (Field(word, 26, 26) = 1) = (p.sensor_configuration = "SingleEnded")
    /\ Decoded(DiodeReadingCount, DiodeReadingCount_identifier, Field(word, 25, 25))
          = {p.num_reading}
    /\ (Field(word, 24, 24) = 1) = p.avg
    /\ Decoded(DiodeExcitationCurrent, DiodeExcitationCurrent_identifier,
               Field(word, 23, 22)) = {p.excitation_current}

AllProbeTypes == ThermocoupleTypes \cup RTDTypes \cup ThermistorTypes
                    \cup {"Diode", "SenseResistor"}

\* C6: decoding the word setup_channel wrote at its fixed field positions gives
\* back the configured choices: the type in bits 31..27; for a thermocouple the
\* cold junction channel, single-ended flag and open-circuit current; for an RTD
\* the reference channel, the wire count in bits 21..20 for every wire count,
\* external flag and rotation flag, the excitation current and the curve; for a
\* diode the single-ended flag, reading count, averaging flag and current.
C6_FieldsRoundTrip ==
    SetupReturned =>
        /\ Len(bus[1].tx) = 7
        /\ Decoded(AllProbeTypes, ThermalProbeType_identifier, Field(SetupWord, 31, 27))
              = {probe.type}
        /\ probe.type \in ThermocoupleTypes => ThermocoupleRecovered(SetupWord, probe.param)
        /\ probe.type \in RTDTypes =>
              /\ RTDOtherFieldsRecovered(SetupWord, probe.param)
              /\ RTDWireCountRecovered(SetupWord, probe.param)
        /\ probe.type = "Diode" => DiodeRecovered(SetupWord, probe.param)

\* the status reads made since the last conversion start of the call
StatusReadsInRound ==
    LET starts == {k \in DOMAIN bus : bus[k].op = "write"}
        last == IF starts = {} THEN 0 ELSE CHOOSE k \in starts : \A j \in starts : j <= k
    IN  Cardinality({k \in DOMAIN bus : k > last /\ bus[k].tx = StatusReadBytes})

\* a status read of get_temperature_avg that the device answers with done set
PollReportsDone ==
    /\ api = "get_temperature_avg"
    /\ pc \in {"avg_print", "avg_poll", "avg_final"}
    /\ StatusFrom(devStatus).done
    /\ Len(bus') = Len(bus) + 1
    /\ bus'[Len(bus')].ok

\* the status read after the poll loop answered with done clear
FinalPollNotDone ==
    /\ api = "get_temperature_avg"
    /\ pc = "avg_final"
    /\ ~StatusFrom(devStatus).done
    /\ Len(bus') = Len(bus) + 1
    /\ bus'[Len(bus')].ok

\* C11: in a round of get_temperature_avg, once a status poll has reported done
\* the next transaction is the read of the result register (no further status
\* poll); the status reads of a round are bounded, and a round whose polls
\* never report done ends the call without a result read.
C11_PollUntilDone ==
    /\ [][PollReportsDone => pc' = "rt_transfer"]_vars
    /\ [][FinalPollNotDone => pc' = "avg_reduce"]_vars
    /\ [](api = "get_temperature_avg" => StatusReadsInRound <= 2 * (2 + args.rounds) + 1)

\* the poll window of a round is bounded and ends the call when done is clear
PollWindowBounded ==
    /\ [][FinalPollNotDone => pc' = "avg_reduce"]_vars
    /\ [](api = "get_temperature_avg" => StatusReadsInRound <= 2 * (2 + args.rounds) + 1)

---------------------------------------------------------------------------
(* get_multi_temperature_avg on a transport that never fails, a device     *)
(* that finishes every conversion it was asked to start, and all-Valid     *)
(* rounds that keep recurring.                                             *)

\* what a result read receives: a Valid 1.0 or an Invalid reading
RxLive == {<<1, 0, 4, 0>>, <<2, 0, 0, 0>>}

\* the steps of get_multi_temperature_avg
MultiAvgStep ==
    \/ MultiAvgWhile
    \/ StartMultiMaskWrite
    \/ StartMultiCommandWrite
    \/ MultiAvgPoll
    \/ ReadTransfer(RxLive)
    \/ MultiAvgRound
    \/ MultiAvgReduce

\* the step met no transport failure
TransportWorks ==
    /\ result'.kind # "SpiError"
    /\ ~(Len(results') > Len(results) /\ results'[Len(results')] = Failed)

\* the received bytes that classify as Valid
ValidRx == {rx \in RxLive : FromBytes(rx).kind = "Valid"}

\* channel k of the list reads Valid in a round whose earlier channels all did
ValidRead(k) ==
    /\ idx = k
    /\ \A j \in DOMAIN results : results[j].kind = "Valid"
    /\ ReadTransfer(ValidRx)
    /\ TransportWorks

\* the positions of the lists of AvgChannelLists
ListPositions == UNION {DOMAIN chs : chs \in AvgChannelLists}

NextLive ==
    \/ \E chs \in AvgChannelLists, n \in 1..MaxRounds :
          Call("get_multi_temperature_avg", [channel |-> "-", channels |-> chs, rounds |-> n])
    \/ MultiAvgStep /\ TransportWorks
    \/ DeviceComplete
    \/ ReturnToCaller

SpecLive ==
    /\ Init
    /\ [][NextLive]_vars
    /\ WF_vars(MultiAvgStep /\ TransportWorks)
    /\ WF_vars(DeviceComplete)
    /\ \A k \in ListPositions : SF_vars(ValidRead(k))

MultiAvgCalled == api = "get_multi_temperature_avg" /\ args.rounds >= 1

MultiAvgReturnedOk ==
    /\ api = "get_multi_temperature_avg"
    /\ pc = "done"
    /\ result.kind = "Ok"

\* C12: with no transport failure, a device that eventually reports done after
\* every start and all-Valid rounds that keep recurring, a call of
\* get_multi_temperature_avg with rounds >= 1 eventually returns Ok having
\* accepted exactly `rounds` rounds.
C12_MultiAvgTerminates ==
    MultiAvgCalled ~> (MultiAvgReturnedOk /\ r = args.rounds /\ Len(values) = args.rounds)

\* a call of two rounds over two channels that returned Ok after more bus
\* transactions than two rounds of one poll each need
C12_Witness ==
    /\ MultiAvgReturnedOk
    /\ args.channels = <<"CH20", "CH1">>
    /\ args.rounds = 2
    /\ r = 2
    /\ Len(bus) = MaxBus

---------------------------------------------------------------------------

MultiAvg == api = "get_multi_temperature_avg"

\* every reading of the round just read is Valid
RoundAllValid == \A k \in DOMAIN results : results[k].kind = "Valid"

\* the sum over the accumulated rounds of channel k's value
ChannelSum(k) == SeqSum([j \in DOMAIN values |-> values[j][k]])

\* C13: in get_multi_temperature_avg the round counter equals the number of
\* accumulated rounds; a round is accumulated and counted only if every listed
\* channel read Valid, and any other round leaves the counter and the
\* accumulator unchanged; the result has one element per listed channel, the
\* sum of that channel's accumulated values over `rounds`.
C13_RoundAccounting ==
    /\ [](MultiAvg =>
            /\ r = Len(values)
            /\ \A j \in DOMAIN values : Len(values[j]) = Len(args.channels))
    /\ [][(MultiAvg /\ pc = "mavg_round") =>
            /\ Len(results) = Len(args.channels)
            /\ IF RoundAllValid
               THEN /\ values' = Append(values, [k \in DOMAIN results |-> results[k].value])
                    /\ r' = r + 1
               ELSE values' = values /\ r' = r]_vars
    /\ [](MultiAvgReturnedOk =>
            result.value = <<[k \in 1..Len(args.channels) |-> ChannelSum(k)],
                             args.rounds>>)

\* two accepted rounds and a discarded one over CH20 and CH1
C13_Witness ==
    /\ MultiAvgReturnedOk
    /\ args.channels = <<"CH20", "CH1">>
    /\ args.rounds = 2
    /\ Starts = 3
    /\ values = << <<1024, -1024>>, <<1024, 1024>> >>
    /\ result.value = << <<2048, 0>>, 2 >>

---------------------------------------------------------------------------

\* the type identifiers of the variants setup_channel implements
ImplementedIdentifiers == (1..8) \cup (10..17) \cup {28, 29}

\* each field of a thermocouple word holds its own value and nothing else
ThermocoupleFieldsInRange(word, p) ==
    /\ Field(word, 26, 22) = (IF p.cold_junction_channel = None THEN 0
                              ELSE identifier(p.cold_junction_channel[1]))
    /\ Field(word, 21, 18) = config_to_bits(p) % 16
    /\ Field(word, 17, 12) = 0
    /\ Field(word, 11, 0) = AddressOrZero(p.custom_address) % 4096

\* each field of an RTD word holds its own value and nothing else
RTDFieldsInRange(word, p) ==
    /\ Field(word, 26, 22) = identifier(p.r_sense_channel)
    /\ Field(word, 21, 18) = RTDSensorConfiguration_to_bits(p.sensor_configuration) % 16
    /\ Field(word, 17, 14) = RTDExcitationCurrent_identifier(p.excitation_current)
    /\ Field(word, 13, 12) = RTDCurve_identifier(p.curve)
    /\ Field(word, 11, 0) = AddressOrZero(p.custom_address) % 4096

\* each field of a diode word holds its own value; the ideality factor is in
\* bits 21..0 only
DiodeFieldsInRange(word, p) ==
    /\ Field(word, 26, 26) = SensorConfiguration_identifier(p.sensor_configuration)
    /\ Field(word, 25, 25) = DiodeReadingCount_identifier(p.num_reading)
    /\ Field(word, 24, 24) = (IF p.avg THEN 1 ELSE 0)
    /\ Field(word, 23, 22) = DiodeExcitationCurrent_identifier(p.excitation_current)
    /\ Field(word, 21, 0) = (IF p.idealitiy_factor = None THEN 0
                             ELSE IdealityBits(p.idealitiy_factor[1]) % 4194304)

\* C14: setup_channel of a thermocouple, RTD, diode or sense resistor makes
\* exactly one write, of 7 bytes: 0x02, the big-endian configuration address
\* of the channel and a 32-bit word, most significant byte first, whose bits
\* 31..27 are the type identifier (1..8, 10..17, 28, 29) and whose other fields
\* each hold their own value without reaching outside their range.
C14_OneSevenByteWrite ==
    SetupReturned =>
        /\ Len(bus) = 1
        /\ bus[1].op = "write"
        /\ Len(bus[1].tx) = 7
        /\ bus[1].tx[1] = 2
        /\ bus[1].tx[2] * 256 + bus[1].tx[3] = 512 + 4 * (Ord(args.channel) - 1)
        /\ Field(SetupWord, 31, 27) = ThermalProbeType_identifier(probe.type)
        /\ Field(SetupWord, 31, 27) \in ImplementedIdentifiers
        /\ probe.type \in ThermocoupleTypes => ThermocoupleFieldsInRange(SetupWord, probe.param)
        /\ probe.type \in RTDTypes => RTDFieldsInRange(SetupWord, probe.param)
        /\ probe.type = "Diode" => DiodeFieldsInRange(SetupWord, probe.param)
        /\ probe.type = "SenseResistor" =>
              Field(SetupWord, 26, 0) = ResistanceBits(probe.param) % 134217728
        /\ (result.kind = "Ok") = bus[1].ok

\* a diode with ideality factor 4.25 on CH20: the factor's bit 22 is masked off
C14_Witness ==
    /\ SetupReturned
    /\ result.kind = "Ok"
    /\ args.channel = "CH20"
    /\ probe.type = "Diode"
    /\ probe.param.idealitiy_factor = Some(17)
    /\ SubSeq(bus[1].tx, 1, 3) = <<2, 2, 76>>
    /\ Field(SetupWord, 31, 27) = 28
    /\ Field(SetupWord, 21, 0) = 262144

---------------------------------------------------------------------------

\* the probe with the rotation flag of its RTD sensor configuration inverted
RotationFlipped(pr) ==
    [pr EXCEPT !.param.sensor_configuration.current_source_rotation = ~@]

\* C15: for the RTD wire counts Wire2 and Wire3, whatever the external flag,
\* the 4-bit sensor configuration field, and with it the whole word
\* setup_channel writes, is the same with and without current source rotation.
C15_RotationIgnored ==
    (/\ SetupReturned
     /\ probe.type \in RTDTypes
     /\ probe.param.sensor_configuration.wire_cnt \in {"Wire2", "Wire3"})
    =>
        LET c == probe.param.sensor_configuration
            other == RotationFlipped(probe)
        IN  /\ RTDSensorConfiguration_to_bits(c)
                  = RTDSensorConfiguration_to_bits(other.param.sensor_configuration)
            /\ Field(SetupWord, 21, 18)
                  = RTDSensorConfiguration_to_bits(other.param.sensor_configuration)
            /\ bus[1].tx = SetupBytes(other, args.channel)

\* a 3-wire RTD with rotation requested: the field reads 0101 as without it
C15_Witness ==
    /\ SetupReturned
    /\ probe.type \in RTDTypes
    /\ probe.param.sensor_configuration
          = [wire_cnt |-> "Wire3", external |-> FALSE, current_source_rotation |-> TRUE]
    /\ Field(SetupWord, 21, 18) = 5

---------------------------------------------------------------------------

ReadMulti == api = "read_multi_temperature"

\* C16: read_multi_temperature makes one 7-byte read per listed channel, in
\* list order, each at that channel's result register, and returns a list of
\* the same length and order; element i is decided by transaction i alone, and
\* a failed transfer or a Suspect or Invalid reading neither stops the
\* remaining reads nor changes another element.
C16_IndependentReads ==
    /\ [](ReadMulti =>
            /\ Len(bus) = Len(results)
            /\ Len(bus) <= Len(args.channels)
            /\ \A k \in DOMAIN bus :
                  /\ bus[k].op = "transfer"
                  /\ bus[k].tx = <<3, 0, 16 + 4 * (Ord(args.channels[k]) - 1), 0, 0, 0, 0>>
                  /\ bus[k].ok = (results[k] # Failed))
    /\ []((ReadMulti /\ pc = "done") =>
            /\ result = [kind |-> "Ok", value |-> results]
            /\ Len(results) = Len(args.channels))
    /\ [][(ReadMulti /\ pc = "rt_transfer" /\ <<pc, bus, results>>' # <<pc, bus, results>>) =>
            /\ Len(bus') = Len(bus) + 1
            /\ results' = Append(results, IF bus'[Len(bus')].ok
                                          THEN FromBytes(recv') ELSE Failed)
            /\ pc' = "rmt_iter"]_vars

\* CH20's read failed and CH1 was still read, Valid 1.0
C16_Witness ==
    /\ ReadMulti
    /\ pc = "done"
    /\ args.channels = <<"CH20", "CH1">>
    /\ result.value = <<Failed, Valid(1024)>>
    /\ bus = <<Tx("transfer", <<3, 0, 92, 0, 0, 0, 0>>, FALSE),
               Tx("transfer", <<3, 0, 16, 0, 0, 0, 0>>, TRUE)>>

---------------------------------------------------------------------------
(* setup_channel and channel_enabled against a device that stores what is  *)
(* written to it and starts with its configuration registers zero.         *)

\* the probes set up: the lowest and the highest type identifiers, an RTD, a
\* diode and an unimplemented thermistor, each with its default parameters
DeviceProbes ==
    {[type |-> "Thermocouple_J", param |-> ThermocoupleDefault],
     [type |-> "RTD_PT100", param |-> RTDDefault],
     [type |-> "Diode", param |-> DiodeDefault],
     [type |-> "SenseResistor", param |-> 1000],
     [type |-> "Thermistor_YSI400"]}

InitDevice ==
    /\ DriverIdle
    /\ params = NoParams
    /\ probe = NoProbe
    /\ query = <<>>
    /\ lookup = NoLookup
    /\ device = ZeroedMemory

NextDevice ==
    \/ \E pr \in DeviceProbes, ch \in DeviceChannels : SetupChannel(pr, ch)
    \/ \E ch \in DeviceChannels : ChannelEnabled(ch)
    \/ ReturnToCaller

SpecDevice == InitDevice /\ [][NextDevice]_vars

\* the addresses of a channel's configuration register
RegisterOf(c) == start_address(c)..(start_address(c) + 3)

\* C17: on a device that stores what is written and starts zeroed,
\* channel_enabled(c) returns true exactly when a setup_channel write to c has
\* succeeded: every type identifier is non-zero, a setup write leaves the other
\* channels' registers as they were, and a transport failure of channel_enabled
\* gives false.
C17_EnabledIffSetUp ==
    /\ []((api = "channel_enabled" /\ pc = "done") =>
            result = [kind |-> "Ok",
                      value |-> <<bus[1].ok /\ args.channel \in device.configured>>])
    /\ [](\A c \in DeviceChannels :
            (c \in device.configured) = (device.mem[start_address(c)] \div 8 # 0))
    /\ [](\A t \in AllProbeTypes : ThermalProbeType_identifier(t) \in 1..31)
    /\ [][(pc = "idle" /\ api' = "setup_channel") =>
            \A c \in DeviceChannels \ {args'.channel} :
                \A a \in RegisterOf(c) : device'.mem[a] = device.mem[a]]_vars

\* with CH1 and CH20 set up, channel_enabled(CH2) read its register and
\* returned false
C17_Witness ==
    /\ api = "channel_enabled"
    /\ pc = "done"
    /\ args.channel = "CH2"
    /\ bus[1].ok
    /\ device.configured = {"CH1", "CH20"}
    /\ result.value = <<FALSE>>

---------------------------------------------------------------------------

\* C18: with rounds = 0, get_temperature_avg and get_multi_temperature_avg
\* make no bus transaction and return AvgCalculationError, never Ok and never
\* a panic.
C18_ZeroRounds ==
    (api \in {"get_temperature_avg", "get_multi_temperature_avg"} /\ args.rounds = 0)
    =>
        /\ bus = <<>>
        /\ pc # "panic"
        /\ pc \in {"avg_while", "mavg_while", "avg_reduce", "mavg_reduce", "done"}
        /\ pc = "done" => result = [kind |-> "AvgCalculationError", value |-> <<>>]

\* get_multi_temperature_avg over CH20 and CH1 with rounds = 0 has returned
C18_Witness ==
    /\ api = "get_multi_temperature_avg"
    /\ args.rounds = 0
    /\ args.channels = <<"CH20", "CH1">>
    /\ pc = "done"
    /\ result.kind = "AvgCalculationError"
    /\ bus = <<>>

\* get_temperature_avg(CH20, 0) has returned
ZeroRoundsSingleReturned ==
    /\ api = "get_temperature_avg"
    /\ args.rounds = 0
    /\ pc = "done"
    /\ result.kind = "AvgCalculationError"

====
